---------------------------- MODULE Spec2Model ----------------------------
(***************************************************************************)
(* A model of bot_v4.py: the validated fields (Name, Phone, Birthday), the *)
(* contact Record, the AddressBook with its upcoming-birthdays query, the  *)
(* pickle persistence and the command handlers behind the main loop.       *)
(*                                                                         *)
(* A Python str is a sequence of characters; a character is a one-letter   *)
(* TLA+ string (a string literal of the code is kept as one element).  An  *)
(* exception is a value: every operation that can raise                    *)
(* returns a result [exc, msg, val] and the callers propagate it exactly   *)
(* where the Python code would unwind.                                     *)
(***************************************************************************)
EXTENDS Integers, Sequences, FiniteSets, TLC

VARIABLES
    data,   \* AddressBook.data: the entries [key, rec] in dict insertion order
    disk,   \* addressbook.pkl: <<>> when the file does not exist, else <<blob>>
    pc,     \* "start" | "ready" (waiting for a line or a call) | "returned" | "done"
    call,   \* the command or call that ran last: [op, args, clock, days]
    out,    \* what it printed or raised: [exc, text]
    ret     \* the list get_upcoming_birthdays returned last

vars == <<data, disk, pc, call, out, ret>>

----------------------------------------------------------------------------
(* Bounds of the model *)

\* A record holds at most this many phones (the code sets no limit).
MaxPhones == 2
\* The system clock ranges over the days of FirstYear .. LastYear.
FirstYear == 2023
LastYear == 2025
\* The largest window passed to get_upcoming_birthdays besides 0 and the default.
MaxWindow == 9

----------------------------------------------------------------------------
(* Characters and strings *)

AsciiDigits == <<"0", "1", "2", "3", "4", "5", "6", "7", "8", "9">>
\* ARABIC-INDIC DIGIT ZERO..NINE, U+0660..U+0669: category Nd, so str.isdigit()
\* and the regex class \d both accept them and int() converts them.
ArabicDigits == <<"U+0660", "U+0661", "U+0662", "U+0663", "U+0664",
                  "U+0665", "U+0666", "U+0667", "U+0668", "U+0669">>
\* SUPERSCRIPT TWO, U+00B2: category No with Numeric_Type=Digit, so str.isdigit()
\* accepts it while \d and int() do not.
SuperscriptTwo == "U+00B2"
Whitespace == {" ", "\t"}

Range(s) == {s[i] : i \in DOMAIN s}

IsAsciiDigit(c) == c \in Range(AsciiDigits)
IsDecimalChar(c) == c \in Range(AsciiDigits) \cup Range(ArabicDigits)
\* str.isdigit() on one character
IsDigitChar(c) == IsDecimalChar(c) \/ c = SuperscriptTwo

\* int() of one decimal character
DigitValue(c) ==
    CHOOSE v \in 0..9 : AsciiDigits[v + 1] = c \/ ArabicDigits[v + 1] = c

RECURSIVE ToInt(_)
\* int() of a string of decimal characters
ToInt(s) ==
    IF s = <<>> THEN 0
    ELSE 10 * ToInt(SubSeq(s, 1, Len(s) - 1)) + DigitValue(s[Len(s)])

\* str.isdigit(): non-empty and every character a digit
isdigit(s) == s # <<>> /\ \A i \in DOMAIN s : IsDigitChar(s[i])

\* str.strip() leaves nothing: every character is whitespace
StripsToEmpty(s) == \A i \in DOMAIN s : s[i] \in Whitespace

----------------------------------------------------------------------------
(* Results and exceptions *)

\* A message is a Python str too: a literal part is one element of the sequence.
NoMsg == <<>>
Msg(text) == <<text>>

Ok(v) == [exc |-> "", msg |-> NoMsg, val |-> v]
Raise(type, msg) == [exc |-> type, msg |-> msg, val |-> <<>>]


----------------------------------------------------------------------------
(* The calendar of datetime.date: proleptic Gregorian, years 1..9999 *)

IsLeap(y) == y % 4 = 0 /\ (y % 100 # 0 \/ y % 400 = 0)

DaysInMonth(y, m) ==
    IF m = 2 THEN (IF IsLeap(y) THEN 29 ELSE 28)
    ELSE IF m \in {4, 6, 9, 11} THEN 30 ELSE 31

ValidDate(y, m, d) ==
    y \in 1..9999 /\ m \in 1..12 /\ d \in 1..DaysInMonth(y, m)

Date(y, m, d) == [y |-> y, m |-> m, d |-> d]

RECURSIVE DaysBeforeMonth(_, _)
DaysBeforeMonth(y, m) ==
    IF m = 1 THEN 0 ELSE DaysBeforeMonth(y, m - 1) + DaysInMonth(y, m - 1)

\* date.toordinal(): 1 for 0001-01-01
toordinal(dt) ==
    LET y1 == dt.y - 1
    IN  365 * y1 + (y1 \div 4) - (y1 \div 100) + (y1 \div 400)
        + DaysBeforeMonth(dt.y, dt.m) + dt.d

\* date.weekday(): Monday is 0, Sunday is 6
weekday(dt) == (toordinal(dt) + 6) % 7

\* (a - b).days
DaysBetween(a, b) == toordinal(a) - toordinal(b)

NextDay(dt) ==
    IF dt.d < DaysInMonth(dt.y, dt.m) THEN Date(dt.y, dt.m, dt.d + 1)
    ELSE IF dt.m < 12 THEN Date(dt.y, dt.m + 1, 1)
    ELSE Date(dt.y + 1, 1, 1)

RECURSIVE AddDays(_, _)
\* dt + timedelta(days=n), n >= 0
AddDays(dt, n) == IF n = 0 THEN dt ELSE AddDays(NextDay(dt), n - 1)

\* date.replace(year=y, day=d): ValueError when there is no such day
replace(dt, y, d) ==
    IF ValidDate(y, dt.m, d) THEN Ok(Date(y, dt.m, d))
    ELSE Raise("ValueError", Msg("day is out of range for month"))

TwoDigits(n) == <<AsciiDigits[(n \div 10) + 1], AsciiDigits[(n % 10) + 1]>>

\* date.strftime("%d.%m.%Y") for a year of four digits
strftime(dt) ==
    TwoDigits(dt.d) \o <<".">> \o TwoDigits(dt.m) \o <<".">>
    \o TwoDigits(dt.y \div 100) \o TwoDigits(dt.y % 100)

NonZeroAscii == Range(AsciiDigits) \ {"0"}

\* the regex of %d: 3[0-1]|[1-2]\d|0[1-9]|[1-9]| [1-9]
DayField(s) ==
    \/ Len(s) = 2 /\ s[1] = "3" /\ s[2] \in {"0", "1"}
    \/ Len(s) = 2 /\ s[1] \in {"1", "2"} /\ IsDecimalChar(s[2])
    \/ Len(s) = 2 /\ s[1] \in {"0", " "} /\ s[2] \in NonZeroAscii
    \/ Len(s) = 1 /\ s[1] \in NonZeroAscii

\* the regex of %m: 1[0-2]|0[1-9]|[1-9]
MonthField(s) ==
    \/ Len(s) = 2 /\ s[1] = "1" /\ s[2] \in {"0", "1", "2"}
    \/ Len(s) = 2 /\ s[1] = "0" /\ s[2] \in NonZeroAscii
    \/ Len(s) = 1 /\ s[1] \in NonZeroAscii

\* the regex of %Y: \d\d\d\d
YearField(s) == Len(s) = 4 /\ \A i \in 1..4 : IsDecimalChar(s[i])

FieldValue(s) == IF s[1] = " " THEN DigitValue(s[2]) ELSE ToInt(s)

\* The ways value splits as <day>.<month>.<year> with nothing left over: the
\* lengths <<i, j>> of the day and month fields (at most one pair).
Splits(value) ==
    {ij \in (1..2) \X (1..2) :
        /\ Len(value) = ij[1] + ij[2] + 6
        /\ value[ij[1] + 1] = "."
        /\ value[ij[1] + ij[2] + 2] = "."
        /\ DayField(SubSeq(value, 1, ij[1]))
        /\ MonthField(SubSeq(value, ij[1] + 2, ij[1] + ij[2] + 1))
        /\ YearField(SubSeq(value, ij[1] + ij[2] + 3, Len(value)))}

\* datetime.strptime(value, "%d.%m.%Y"), the time of day left out (it is 00:00:00)
strptime(value) ==
    IF Splits(value) = {}
    THEN Raise("ValueError", <<"time data '">> \o value \o <<"' does not match format '%d.%m.%Y'">>)
    ELSE LET ij == CHOOSE x \in Splits(value) : TRUE
             d == FieldValue(SubSeq(value, 1, ij[1]))
             m == FieldValue(SubSeq(value, ij[1] + 2, ij[1] + ij[2] + 1))
             y == FieldValue(SubSeq(value, ij[1] + ij[2] + 3, Len(value)))
         IN  IF ValidDate(y, m, d) THEN Ok(Date(y, m, d))
             ELSE Raise("ValueError", Msg("day is out of range for month"))

----------------------------------------------------------------------------
(* Field validators *)

\* Fault seeded for C6: Name.__init__ with `not value` alone, the strip() test
\* forgotten
Name_without_strip(value) ==
    IF value = <<>>
    THEN Raise("ValueError", Msg("Name cannot be empty"))
    ELSE Ok(value)

\* Name.__init__
Name(value) ==
    IF value = <<>> \/ StripsToEmpty(value)
    THEN Raise("ValueError", Msg("Name cannot be empty"))
    ELSE Ok(value)

\* Phone.__init__
Phone(value) ==
    IF ~isdigit(value)
    THEN Raise("ValueError", Msg("Phone number must contain only digits"))
    ELSE IF Len(value) # 10
    THEN Raise("ValueError", Msg("Phone number must be exactly 10 digits"))
    ELSE Ok(value)

\* Birthday.__init__: any ValueError of strptime becomes the format message
Birthday(value) ==
    LET parsed == strptime(value)
    IN  IF parsed.exc = "ValueError"
        THEN Raise("ValueError", Msg("Invalid date format. Use DD.MM.YYYY"))
        ELSE parsed

----------------------------------------------------------------------------
(* Record: [name, phones, birthday]; birthday is <<>> (None) or <<date>> *)

\* Record.__init__
Record(name) ==
    LET n == Name(name)
    IN  IF n.exc # "" THEN n
        ELSE Ok([name |-> n.val, phones |-> <<>>, birthday |-> <<>>])

\* Record.find_phone: the index of the first phone equal to phone, 0 for None
Record_find_phone(rec, phone) ==
    IF \E i \in DOMAIN rec.phones : rec.phones[i] = phone
    THEN CHOOSE i \in DOMAIN rec.phones :
            /\ rec.phones[i] = phone
            /\ \A j \in 1..(i - 1) : rec.phones[j] # phone
    ELSE 0

\* Fault seeded for C7: add_phone that skips a phone the record already holds
Record_add_phone_unique(rec, phone) ==
    LET phone_obj == Phone(phone)
    IN  IF phone_obj.exc # "" THEN phone_obj
        ELSE IF \E i \in DOMAIN rec.phones : rec.phones[i] = phone THEN Ok(rec)
        ELSE Ok([rec EXCEPT !.phones = Append(@, phone_obj.val)])

\* Record.add_phone
Record_add_phone(rec, phone) ==
    LET phone_obj == Phone(phone)
    IN  IF phone_obj.exc # "" THEN phone_obj
        ELSE Ok([rec EXCEPT !.phones = Append(@, phone_obj.val)])

RemoveAt(s, i) == SubSeq(s, 1, i - 1) \o SubSeq(s, i + 1, Len(s))

\* Record.remove_phone
Record_remove_phone(rec, phone) ==
    LET index == Record_find_phone(rec, phone)
    IN  IF index # 0
        THEN Ok([rec EXCEPT !.phones = RemoveAt(@, index)])
        ELSE Raise("ValueError", <<"Phone ">> \o phone \o <<" not found">>)

\* Record.edit_phone
Record_edit_phone(rec, old_phone, new_phone) ==
    LET index == Record_find_phone(rec, old_phone)
    IN  IF index = 0
        THEN Raise("ValueError", <<"Phone ">> \o old_phone \o <<" not found">>)
        ELSE LET new_phone_obj == Phone(new_phone)
             IN  IF new_phone_obj.exc # "" THEN new_phone_obj
                 ELSE Ok([rec EXCEPT !.phones[index] = new_phone_obj.val])

\* Record.add_birthday
Record_add_birthday(rec, birthday) ==
    LET b == Birthday(birthday)
    IN  IF b.exc # "" THEN b
        ELSE Ok([rec EXCEPT !.birthday = <<b.val>>])

----------------------------------------------------------------------------
(* AddressBook: the dict `data` as the sequence of its items [key, rec] *)

Keys(book) == {book[i].key : i \in DOMAIN book}

KeyIndex(book, name) == CHOOSE i \in DOMAIN book : book[i].key = name

\* AddressBook(): an empty dict
AddressBook == <<>>

\* AddressBook.add_record: data[record.name.value] = record
AddressBook_add_record(book, record) ==
    IF record.name \in Keys(book)
    THEN [book EXCEPT ![KeyIndex(book, record.name)].rec = record]
    ELSE Append(book, [key |-> record.name, rec |-> record])

\* AddressBook.find: data.get(name), <<>> for None and <<record>> otherwise
AddressBook_find(book, name) ==
    IF name \in Keys(book) THEN <<book[KeyIndex(book, name)].rec>> ELSE <<>>

\* AddressBook.delete
AddressBook_delete(book, name) ==
    IF name \in Keys(book)
    THEN Ok(RemoveAt(book, KeyIndex(book, name)))
    ELSE Raise("KeyError", <<"'">> \o name \o <<"'">>)

\* A method call that changed the record stored under name: the dict holds a
\* reference to the object, so the book sees the change.
Mutated(book, name, record) ==
    [book EXCEPT ![KeyIndex(book, name)].rec = record]

\* Fault seeded for C4: the Feb 29 fallback left out of the move to next year
BirthdayThisYear_without_fallback(birthday_date, today) ==
    LET first == replace(birthday_date, today.y, birthday_date.d)
        this_year == IF first.exc = "ValueError"
                     THEN replace(birthday_date, today.y, 28)
                     ELSE first
    IN  IF this_year.exc # "" THEN this_year
        ELSE IF DaysBetween(this_year.val, today) < 0
        THEN replace(birthday_date, today.y + 1, birthday_date.d)
        ELSE this_year

\* get_upcoming_birthdays, lines 158-172: the candidate date birthday_this_year
BirthdayThisYear(birthday_date, today) ==
    LET first == replace(birthday_date, today.y, birthday_date.d)
        this_year == IF first.exc = "ValueError"
                     THEN replace(birthday_date, today.y, 28)
                     ELSE first
    IN  IF this_year.exc # "" THEN this_year
        ELSE IF DaysBetween(this_year.val, today) < 0
        THEN LET next_year == replace(birthday_date, today.y + 1, birthday_date.d)
             IN  IF next_year.exc = "ValueError"
                 THEN replace(birthday_date, today.y + 1, 28)
                 ELSE next_year
        ELSE this_year

\* Fault seeded for C5: Saturday and Sunday both moved by one day
CongratulationDate_one_day(birthday_this_year) ==
    IF weekday(birthday_this_year) \in {5, 6} THEN AddDays(birthday_this_year, 1)
    ELSE birthday_this_year

\* get_upcoming_birthdays, lines 179-184: the weekend shift
CongratulationDate(birthday_this_year) ==
    IF weekday(birthday_this_year) = 5 THEN AddDays(birthday_this_year, 2)
    ELSE IF weekday(birthday_this_year) = 6 THEN AddDays(birthday_this_year, 1)
    ELSE birthday_this_year

\* get_upcoming_birthdays, the body of the loop for one record: the entries it
\* appends (none or one), or the exception that leaves the loop
UpcomingOf(record, today, days) ==
    IF record.birthday = <<>> THEN Ok(<<>>)
    ELSE LET candidate == BirthdayThisYear(record.birthday[1], today)
         IN  IF candidate.exc # "" THEN candidate
             ELSE LET days_until_birthday == DaysBetween(candidate.val, today)
                  IN  IF 0 <= days_until_birthday /\ days_until_birthday <= days
                      THEN Ok(<<[name |-> record.name,
                                 birthday |-> strftime(candidate.val),
                                 congratulation_date |->
                                     strftime(CongratulationDate(candidate.val))]>>)
                      ELSE Ok(<<>>)

RECURSIVE UpcomingFrom(_, _, _, _)
UpcomingFrom(book, i, today, days) ==
    IF i > Len(book) THEN Ok(<<>>)
    ELSE LET head == UpcomingOf(book[i].rec, today, days)
         IN  IF head.exc # "" THEN head
             ELSE LET tail == UpcomingFrom(book, i + 1, today, days)
                  IN  IF tail.exc # "" THEN tail
                      ELSE Ok(head.val \o tail.val)

\* AddressBook.get_upcoming_birthdays, today being datetime.today().date()
AddressBook_get_upcoming_birthdays(book, today, days) ==
    UpcomingFrom(book, 1, today, days)

----------------------------------------------------------------------------
(* Persistence: pickle as a stream of tagged items [tag, n, s] *)

Item(tag, n, s) == [tag |-> tag, n |-> n, s |-> s]

RECURSIVE PickleStrings(_)
PickleStrings(strings) ==
    IF strings = <<>> THEN <<>>
    ELSE <<Item("STR", 0, Head(strings))>> \o PickleStrings(Tail(strings))

PickleBirthday(birthday) ==
    IF birthday = <<>> THEN <<Item("NONE", 0, <<>>)>>
    ELSE <<Item("DATETIME", 0, <<>>), Item("INT", birthday[1].y, <<>>),
           Item("INT", birthday[1].m, <<>>), Item("INT", birthday[1].d, <<>>)>>

PickleRecord(record) ==
    <<Item("RECORD", 0, <<>>), Item("STR", 0, record.name),
      Item("LIST", Len(record.phones), <<>>)>>
    \o PickleStrings(record.phones) \o PickleBirthday(record.birthday)

RECURSIVE PickleItems(_)
PickleItems(book) ==
    IF book = <<>> THEN <<>>
    ELSE <<Item("STR", 0, Head(book).key)>> \o PickleRecord(Head(book).rec)
         \o PickleItems(Tail(book))

\* pickle.dump(book, f): the AddressBook object, its dict and every object in it
dumps(book) == <<Item("DICT", Len(book), <<>>)>> \o PickleItems(book)

\* the phones of a LIST of n strings that starts at blob[pos]
UnpickleStrings(blob, pos, n) == [i \in 1..n |-> blob[pos + i - 1].s]

\* the record that starts at blob[pos] (a RECORD item) and the position after it
UnpickleRecord(blob, pos) ==
    LET n == blob[pos + 2].n
        at == pos + 3 + n
        dated == blob[at].tag = "DATETIME"
    IN  [rec |-> [name |-> blob[pos + 1].s,
                  phones |-> UnpickleStrings(blob, pos + 3, n),
                  birthday |-> IF dated
                               THEN <<Date(blob[at + 1].n, blob[at + 2].n,
                                           blob[at + 3].n)>>
                               ELSE <<>>],
         next |-> IF dated THEN at + 4 ELSE at + 1]

RECURSIVE UnpickleItems(_, _, _)
UnpickleItems(blob, pos, count) ==
    IF count = 0 THEN <<>>
    ELSE LET r == UnpickleRecord(blob, pos + 1)
         IN  <<[key |-> blob[pos].s, rec |-> r.rec]>>
             \o UnpickleItems(blob, r.next, count - 1)

\* pickle.load(f)
loads(blob) == UnpickleItems(blob, 2, blob[1].n)

\* save_data: the file is rewritten whole
save_data(book) == <<dumps(book)>>

\* Fault seeded for C8: load_data that opens another file than save_data wrote,
\* so that the file is never found
load_data_other_file(file) == AddressBook

\* load_data: a new AddressBook when the file is not found
load_data(file) == IF file = <<>> THEN AddressBook ELSE loads(file[1])

----------------------------------------------------------------------------
(* The command handlers.  A body returns [exc, msg, book]: the message it   *)
(* returned or the exception it raised, and the book as it left it.         *)

Returned(book, msg) == [exc |-> "", msg |-> msg, book |-> book]
Raised(book, exc, msg) == [exc |-> exc, msg |-> msg, book |-> book]

\* `a, b, *_ = args` with fewer than n values raises ValueError
UnpackError(n, got) ==
    Msg("not enough values to unpack (expected at least " \o ToString(n)
        \o ", got " \o ToString(got) \o ")")

\* `record.attr` when book.find returned None
NoneAttributeError(attr) ==
    Msg("'NoneType' object has no attribute '" \o attr \o "'")

\* Fault seeded for C3: input_error without the `except AttributeError` clause
input_error_without_attribute(res) ==
    [book |-> res.book,
     text |-> IF res.exc = "" THEN res.msg
              ELSE IF res.exc = "KeyError" THEN Msg("Contact not found.")
              ELSE IF res.exc = "ValueError" THEN res.msg
              ELSE IF res.exc = "IndexError"
              THEN Msg("Missing arguments. Please check the command format.")
              ELSE Msg("Error: ") \o res.msg]

\* input_error: the except clauses in their order
input_error(res) ==
    [book |-> res.book,
     text |-> IF res.exc = "" THEN res.msg
              ELSE IF res.exc = "KeyError" THEN Msg("Contact not found.")
              ELSE IF res.exc = "ValueError" THEN res.msg
              ELSE IF res.exc = "IndexError"
              THEN Msg("Missing arguments. Please check the command format.")
              ELSE IF res.exc = "AttributeError"
              THEN Msg("Contact not found or has no required attribute.")
              ELSE Msg("Error: ") \o res.msg]

\* add_contact, lines 236-238: `if phone: record.add_phone(phone)`
AddContactPhone(book, name, phone, message) ==
    IF phone = <<>> THEN Returned(book, message)
    ELSE LET added == Record_add_phone(AddressBook_find(book, name)[1], phone)
         IN  IF added.exc # "" THEN Raised(book, added.exc, added.msg)
             ELSE Returned(Mutated(book, name, added.val), message)

\* add_contact
add_contact(args, book) ==
    IF Len(args) < 2 THEN Raised(book, "ValueError", UnpackError(2, Len(args)))
    ELSE LET name == args[1]
             phone == args[2]
         IN  IF AddressBook_find(book, name) = <<>>
             THEN LET record == Record(name)
                  IN  IF record.exc # "" THEN Raised(book, record.exc, record.msg)
                      ELSE AddContactPhone(AddressBook_add_record(book, record.val),
                                           name, phone, Msg("Contact added."))
             ELSE AddContactPhone(book, name, phone, Msg("Contact updated."))

\* change_contact
change_contact(args, book) ==
    IF Len(args) < 3 THEN Raised(book, "ValueError", UnpackError(3, Len(args)))
    ELSE LET name == args[1]
             record == AddressBook_find(book, name)
         IN  IF record = <<>>
             THEN Raised(book, "AttributeError", NoneAttributeError("edit_phone"))
             ELSE LET edited == Record_edit_phone(record[1], args[2], args[3])
                  IN  IF edited.exc # "" THEN Raised(book, edited.exc, edited.msg)
                      ELSE Returned(Mutated(book, name, edited.val),
                                    Msg("Contact updated."))

RECURSIVE Join(_, _)
\* sep.join(strings)
Join(strings, sep) ==
    IF strings = <<>> THEN <<>>
    ELSE IF Len(strings) = 1 THEN strings[1]
    ELSE strings[1] \o <<sep>> \o Join(Tail(strings), sep)

\* show_phone
show_phone(args, book) ==
    IF Len(args) < 1 THEN Raised(book, "ValueError", UnpackError(1, Len(args)))
    ELSE LET record == AddressBook_find(book, args[1])
         IN  IF record = <<>>
             THEN Raised(book, "AttributeError", NoneAttributeError("phones"))
             ELSE IF record[1].phones = <<>>
             THEN Returned(book, Msg("No phones for this contact."))
             ELSE Returned(book, <<"Phone numbers for ">> \o record[1].name
                                 \o <<": ">> \o Join(record[1].phones, "; "))

\* Record.__str__
Record_str(record) ==
    <<"Contact name: ">> \o record.name \o <<", phones: ">>
    \o (IF record.phones # <<>> THEN Join(record.phones, "; ")
        ELSE <<"no phones">>)
    \o (IF record.birthday # <<>>
        THEN <<", birthday: ">> \o strftime(record.birthday[1])
        ELSE <<>>)

\* The characters of the model in code point order
CodePointOrder ==
    <<"\t", " ", ".">> \o AsciiDigits \o <<"A", "B", "l", "o", SuperscriptTwo>>
    \o ArabicDigits

CodeRank(c) == CHOOSE i \in DOMAIN CodePointOrder : CodePointOrder[i] = c

RECURSIVE StrLess(_, _)
\* a < b for two str
StrLess(a, b) ==
    IF b = <<>> THEN FALSE
    ELSE IF a = <<>> THEN TRUE
    ELSE IF a[1] = b[1] THEN StrLess(Tail(a), Tail(b))
    ELSE CodeRank(a[1]) < CodeRank(b[1])

RECURSIVE sorted(_)
\* sorted(keys)
sorted(keys) ==
    IF keys = {} THEN <<>>
    ELSE LET least == CHOOSE k \in keys : \A other \in keys \ {k} : StrLess(k, other)
         IN  <<least>> \o sorted(keys \ {least})

\* show_all
show_all(book) ==
    IF book = <<>> THEN Returned(book, Msg("No contacts in address book."))
    ELSE LET names == sorted(Keys(book))
         IN  Returned(book,
                 Join([i \in DOMAIN names |->
                          Record_str(book[KeyIndex(book, names[i])].rec)], "\n"))

\* add_birthday
add_birthday(args, book) ==
    IF Len(args) < 2 THEN Raised(book, "ValueError", UnpackError(2, Len(args)))
    ELSE LET name == args[1]
             record == AddressBook_find(book, name)
         IN  IF record = <<>>
             THEN Raised(book, "AttributeError", NoneAttributeError("add_birthday"))
             ELSE LET dated == Record_add_birthday(record[1], args[2])
                  IN  IF dated.exc # "" THEN Raised(book, dated.exc, dated.msg)
                      ELSE Returned(Mutated(book, name, dated.val),
                                    Msg("Birthday added."))

\* show_birthday
show_birthday(args, book) ==
    IF Len(args) < 1 THEN Raised(book, "ValueError", UnpackError(1, Len(args)))
    ELSE LET record == AddressBook_find(book, args[1])
         IN  IF record = <<>>
             THEN Raised(book, "AttributeError", NoneAttributeError("birthday"))
             ELSE IF record[1].birthday # <<>>
             THEN Returned(book, strftime(record[1].birthday[1]))
             ELSE Returned(book, Msg("No birthday set for this contact."))

\* the default of the parameter `days`
DefaultDays == 7

\* birthdays: the clock is read inside get_upcoming_birthdays
birthdays(args, book, today) ==
    LET upcoming == AddressBook_get_upcoming_birthdays(book, today, DefaultDays)
    IN  IF upcoming.exc # "" THEN Raised(book, upcoming.exc, upcoming.msg)
        ELSE IF upcoming.val = <<>> THEN Returned(book, Msg("No upcoming birthdays."))
        ELSE Returned(book,
                Join(<<Msg("Upcoming birthdays:")>> \o
                     [i \in DOMAIN upcoming.val |->
                         upcoming.val[i].name \o <<": ">> \o upcoming.val[i].birthday
                         \o <<" (congratulate on ">>
                         \o upcoming.val[i].congratulation_date \o <<")">>],
                     "\n"))

----------------------------------------------------------------------------
(* The inputs the model draws *)

Al == <<"A", "l">>
Bo == <<"B", "o">>
ContactNames == {Al, Bo}

AsciiPhone == AsciiDigits                       \* "0123456789"
FivesPhone == [i \in 1..10 |-> "5"]             \* "5555555555"
ArabicPhone == ArabicDigits                     \* ten Arabic-Indic digits
ShortDigits == <<"1", "2", "3">>                \* "123"
LeapDayText == strftime(Date(2000, 2, 29))      \* "29.02.2000"

\* the words that follow the contact name on a command line
Words == {AsciiPhone, FivesPhone, ArabicPhone, ShortDigits, LeapDayText}

\* the lines of k words: a contact name, then words
ArgsOfLength(k) ==
    IF k = 0 THEN {<<>>}
    ELSE {<<n>> \o w : n \in ContactNames, w \in [1..(k - 1) -> Words]}

\* the argument lists tried on a handler that unpacks `need` values: every
\* shorter list, the exact ones, and the exact ones with one more word
InputArgs(need) ==
    UNION {ArgsOfLength(k) : k \in 0..need}
    \cup {a \o <<ShortDigits>> : a \in ArgsOfLength(need)}

\* the days of FirstYear .. LastYear
Clock ==
    {dt \in [y : FirstYear..LastYear, m : 1..12, d : 1..31] :
        ValidDate(dt.y, dt.m, dt.d)}

\* the days the main loop's `birthdays` command is tried on
ClockSample ==
    {dt \in Clock : dt.m = 2 /\ dt.d \in {23, 28}} \cup {Date(FirstYear, 6, 10)}

Windows == {0, DefaultDays, MaxWindow}

Bounded(book) == \A i \in DOMAIN book : Len(book[i].rec.phones) <= MaxPhones

----------------------------------------------------------------------------
(* The main loop *)

NoCall == [op |-> "", args |-> <<>>, clock |-> <<>>, days |-> 0]
NoOut == [exc |-> "", text |-> NoMsg]

Init ==
    /\ data = AddressBook
    /\ disk = <<>>
    /\ pc = "start"
    /\ call = NoCall
    /\ out = NoOut
    /\ ret = <<>>

\* main, line 319: book = load_data()
Load ==
    /\ pc = "start"
    /\ data' = load_data(disk)
    /\ pc' = "ready"
    /\ UNCHANGED <<disk, call, out, ret>>

\* One pass of the loop for a command that is routed to a handler: the handler
\* runs under input_error and its message is printed.
Run(op, args, clock, res) ==
    /\ pc = "ready"
    /\ Bounded(res.book)
    /\ data' = res.book
    /\ out' = [exc |-> "", text |-> res.text]
    /\ call' = [op |-> op, args |-> args, clock |-> clock, days |-> 0]
    /\ pc' = "returned"
    /\ UNCHANGED <<disk, ret>>

Says(text) == [book |-> data, text |-> Msg(text)]

Hello == Run("hello", <<>>, <<>>, Says("How can I help you?"))

Add ==
    \E args \in InputArgs(2) :
        Run("add", args, <<>>, input_error(add_contact(args, data)))

Change ==
    \E args \in InputArgs(3) :
        Run("change", args, <<>>, input_error(change_contact(args, data)))

ShowPhone ==
    \E args \in InputArgs(1) :
        Run("phone", args, <<>>, input_error(show_phone(args, data)))

All == Run("all", <<>>, <<>>, input_error(show_all(data)))

AddBirthday ==
    \E args \in InputArgs(2) :
        Run("add-birthday", args, <<>>, input_error(add_birthday(args, data)))

ShowBirthday ==
    \E args \in InputArgs(1) :
        Run("show-birthday", args, <<>>, input_error(show_birthday(args, data)))

Birthdays ==
    \E today \in ClockSample :
        Run("birthdays", <<>>, <<today>>, input_error(birthdays(<<>>, data, today)))

Help == Run("help", <<>>, <<>>, Says("Available commands:"))

\* any other first word, the empty line included
Invalid ==
    \E op \in {"", "remove"} : Run(op, <<>>, <<>>, Says("Invalid command."))

\* close / exit: save_data(book), then the loop ends
Close ==
    /\ pc = "ready"
    /\ disk' = save_data(data)
    /\ out' = [exc |-> "", text |-> Msg("Good bye!")]
    /\ call' = [NoCall EXCEPT !.op = "close"]
    /\ pc' = "done"
    /\ UNCHANGED <<data, ret>>

\* back at input(): the line, the parsed command and the message are gone
Prompt ==
    /\ pc = "returned"
    /\ pc' = "ready"
    /\ call' = NoCall
    /\ out' = NoOut
    /\ ret' = <<>>
    /\ UNCHANGED <<data, disk>>

Next ==
    \/ Load \/ Hello \/ Add \/ Change \/ ShowPhone \/ All \/ AddBirthday
    \/ ShowBirthday \/ Birthdays \/ Help \/ Invalid \/ Close \/ Prompt

Spec == Init /\ [][Next]_vars

----------------------------------------------------------------------------
(* The classes called directly: a caller that holds one AddressBook and     *)
(* calls its methods, the methods of its records and the handlers in any   *)
(* order.                                                                   *)

\* the names a caller passes to Record(): the empty and the blank one too
RecordNames == ContactNames \cup {<<>>, <<" ">>, <<" ", "\t">>}

\* A call that returned or raised: res is [exc, msg, val], val the book it left.
Called(op, args, res) ==
    /\ pc = "ready"
    /\ data' = (IF res.exc = "" THEN res.val ELSE data)
    /\ Bounded(data')
    /\ out' = [exc |-> res.exc, text |-> res.msg]
    /\ call' = [op |-> op, args |-> args, clock |-> <<>>, days |-> 0]
    /\ pc' = "returned"
    /\ UNCHANGED <<disk, ret>>

\* a method of the record stored under name: the book with the record changed
OnRecord(name, res) ==
    IF res.exc = "" THEN Ok(Mutated(data, name, res.val)) ELSE res

\* book.add_record(Record(name))
ApiAddRecord ==
    \E name \in RecordNames :
        LET record == Record(name)
        IN  Called("add_record", <<name>>,
                   IF record.exc # "" THEN record
                   ELSE Ok(AddressBook_add_record(data, record.val)))

\* book.delete(name)
ApiDelete ==
    \E name \in ContactNames :
        Called("delete", <<name>>, AddressBook_delete(data, name))

\* book.find(name).add_phone(phone)
ApiAddPhone ==
    \E name \in Keys(data), phone \in Words :
        Called("add_phone", <<name, phone>>,
               OnRecord(name, Record_add_phone(AddressBook_find(data, name)[1], phone)))

\* book.find(name).remove_phone(phone)
ApiRemovePhone ==
    \E name \in Keys(data), phone \in Words :
        Called("remove_phone", <<name, phone>>,
               OnRecord(name,
                        Record_remove_phone(AddressBook_find(data, name)[1], phone)))

\* book.find(name).edit_phone(old_phone, new_phone)
ApiEditPhone ==
    \E name \in Keys(data), old_phone \in Words, new_phone \in Words :
        Called("edit_phone", <<name, old_phone, new_phone>>,
               OnRecord(name,
                        Record_edit_phone(AddressBook_find(data, name)[1],
                                          old_phone, new_phone)))

\* book.find(name).add_birthday(birthday)
ApiAddBirthday ==
    \E name \in Keys(data), birthday \in Words :
        Called("add_birthday", <<name, birthday>>,
               OnRecord(name,
                        Record_add_birthday(AddressBook_find(data, name)[1],
                                            birthday)))

InitApi ==
    /\ data = AddressBook
    /\ disk = <<>>
    /\ pc = "ready"
    /\ call = NoCall
    /\ out = NoOut
    /\ ret = <<>>

NextApi ==
    \/ ApiAddRecord \/ ApiDelete \/ ApiAddPhone \/ ApiRemovePhone
    \/ ApiEditPhone \/ ApiAddBirthday \/ Add \/ Change \/ AddBirthday \/ Prompt

SpecApi == InitApi /\ [][NextApi]_vars

----------------------------------------------------------------------------
(* get_upcoming_birthdays on books with birthdays, on every day of the clock *)

BirthDates ==
    {Date(2000, 2, 29), Date(1999, 2, 28), Date(2001, 3, 1), Date(1990, 12, 31),
     Date(1985, 1, 1), Date(1990, 6, 10), Date(1988, 1, 8), Date(1995, 12, 24)}

\* Record(name) and, with a date, add_birthday(its text)
Born(name, birthday) ==
    IF birthday = <<>> THEN Record(name).val
    ELSE Record_add_birthday(Record(name).val, strftime(birthday[1])).val

Maybe(dates) == {<<>>} \cup {<<dt>> : dt \in dates}

\* the books of one contact, and of two when the second is born on a day the
\* year's end or the leap day touches
BirthdayBooks ==
    {AddressBook_add_record(AddressBook, Born(Al, b)) : b \in Maybe(BirthDates)}
    \cup
    {AddressBook_add_record(AddressBook_add_record(AddressBook, Born(Al, b)),
                            Born(Bo, c)) :
        b \in Maybe(BirthDates),
        c \in Maybe({Date(2000, 2, 29), Date(1990, 12, 31)})}

InitBirthdays ==
    /\ data \in BirthdayBooks
    /\ disk = <<>>
    /\ pc = "ready"
    /\ call = NoCall
    /\ out = NoOut
    /\ ret = <<>>

\* book.get_upcoming_birthdays(days)
GetUpcomingBirthdays ==
    /\ pc = "ready"
    /\ \E today \in Clock, days \in Windows :
          LET res == AddressBook_get_upcoming_birthdays(data, today, days)
          IN  /\ ret' = res.val
              /\ out' = [exc |-> res.exc, text |-> res.msg]
              /\ call' = [op |-> "get_upcoming_birthdays", args |-> <<>>,
                          clock |-> <<today>>, days |-> days]
    /\ pc' = "returned"
    /\ UNCHANGED <<data, disk>>

NextBirthdays == GetUpcomingBirthdays \/ Prompt

SpecBirthdays == InitBirthdays /\ [][NextBirthdays]_vars

----------------------------------------------------------------------------
(* Runs of the program one after the other over the same file *)

\* the phones a record can hold
StoredPhones == {w \in Words : Phone(w).exc = ""}

PhoneLists == UNION {[1..k -> StoredPhones] : k \in 0..MaxPhones}

\* a record as the commands leave it
RecordsOf(name) ==
    {[name |-> name, phones |-> ps, birthday |-> b] :
        ps \in PhoneLists, b \in Maybe({Date(2000, 2, 29)})}

ItemsOf(name) == {[key |-> name, rec |-> r] : r \in RecordsOf(name)}

\* the books the commands of one run can leave in memory
Books ==
    {AddressBook}
    \cup UNION {{<<e>> : e \in ItemsOf(n)} : n \in ContactNames}
    \cup UNION {{<<e, f>> : e \in ItemsOf(p[1]), f \in ItemsOf(p[2])} :
                   p \in {q \in ContactNames \X ContactNames : q[1] # q[2]}}

InitRuns ==
    /\ data \in Books
    /\ disk = <<>>
    /\ pc = "ready"
    /\ call = NoCall
    /\ out = NoOut
    /\ ret = <<>>

\* the program is started again: main, line 319
Restart ==
    /\ pc = "done"
    /\ data' = load_data(disk)
    /\ pc' = "ready"
    /\ call' = NoCall
    /\ out' = NoOut
    /\ UNCHANGED <<disk, ret>>

NextRuns == Close \/ Restart

SpecRuns == InitRuns /\ [][NextRuns]_vars

----------------------------------------------------------------------------
(* Vocabulary of the properties *)

\* a phone as the data model defines it: exactly 10 ASCII digits
TenAsciiDigits(s) == Len(s) = 10 /\ \A i \in DOMAIN s : IsAsciiDigit(s[i])

\* the number of arguments each command requires
Required(op) ==
    IF op = "change" THEN 3
    ELSE IF op \in {"add", "add-birthday"} THEN 2
    ELSE 1

MissingArgumentsMessage == Msg("Missing arguments. Please check the command format.")

\* the two messages of the program that say the contact was not found
ContactNotFoundMessages ==
    {Msg("Contact not found."),
     Msg("Contact not found or has no required attribute.")}

\* the messages a command prints when it did what it was asked
SuccessMessages ==
    {Msg("Contact added."), Msg("Contact updated."), Msg("Birthday added.")}

PhonesOf(book, name) ==
    IF name \in Keys(book) THEN AddressBook_find(book, name)[1].phones ELSE <<>>

BirthdayOf(book, name) ==
    IF name \in Keys(book) THEN AddressBook_find(book, name)[1].birthday ELSE <<>>

\* a command of the main loop has just run
Ran(ops) == pc = "returned" /\ call.op \in ops

\* this step is a command or call of ops running
Runs(ops) == pc = "ready" /\ pc' = "returned" /\ call'.op \in ops

----------------------------------------------------------------------------
(* C1 *)

\* C1: after any sequence of commands, every phone stored in every record of
\* the address book is a string of exactly 10 ASCII decimal digits, Phone
\* construction having failed for every other string.
C1_StoredPhonesAreTenAsciiDigits ==
    \A i \in DOMAIN data :
        \A j \in DOMAIN data[i].rec.phones :
            TenAsciiDigits(data[i].rec.phones[j])

----------------------------------------------------------------------------
(* C2 *)

\* C2: add, change, phone, add-birthday and show-birthday, given fewer
\* arguments than they require, print the "missing arguments" message.
C2_MissingArgumentsYieldMessage ==
    (/\ Ran({"add", "change", "phone", "add-birthday", "show-birthday"})
     /\ Len(call.args) < Required(call.op))
    => out.text = MissingArgumentsMessage

----------------------------------------------------------------------------
(* C3 *)

\* C3: change, phone, add-birthday and show-birthday, given all their arguments
\* and a name that is no key of the book, print a "contact not found" message
\* and the name is still no key of the book, whatever the other arguments are.
C3_UnknownContactNotFound ==
    [][(/\ Runs({"change", "phone", "add-birthday", "show-birthday"})
        /\ Len(call'.args) >= Required(call'.op)
        /\ call'.args[1] \notin Keys(data))
       => (/\ out'.text \in ContactNotFoundMessages
           /\ call'.args[1] \notin Keys(data'))]_vars

\* change on an unknown name with a new phone the validator rejects, the book
\* holding another contact
C3_Witness ==
    /\ Ran({"change"})
    /\ Len(call.args) = 3
    /\ call.args[1] \notin Keys(data)
    /\ data # <<>>
    /\ ~TenAsciiDigits(call.args[3])
    /\ out.text \in ContactNotFoundMessages

----------------------------------------------------------------------------
(* C4 *)

\* the birthday born on `born` is kept on day dt: the same month and day, or
\* Feb 28 of a year without a Feb 29 for a birthday on Feb 29
Occurs(born, dt) ==
    \/ dt.m = born.m /\ dt.d = born.d
    \/ born.m = 2 /\ born.d = 29 /\ ~IsLeap(dt.y) /\ dt.m = 2 /\ dt.d = 28

\* the days on or after today, this year or next, on which it is kept
Occurrences(born, today) ==
    {dt \in [y : {today.y, today.y + 1}, m : {born.m}, d : {born.d, 28}] :
        /\ ValidDate(dt.y, dt.m, dt.d)
        /\ Occurs(born, dt)
        /\ toordinal(dt) >= toordinal(today)}

\* the earliest of them
NextOccurrence(born, today) ==
    CHOOSE dt \in Occurrences(born, today) :
        \A other \in Occurrences(born, today) : toordinal(dt) <= toordinal(other)

Listed(name) == \E k \in DOMAIN ret : ret[k].name = name

\* C4: get_upcoming_birthdays(days) does not fail and returns an entry for a
\* record if and only if the record has a birthday whose next occurrence on or
\* after today (Feb 28 standing in for Feb 29 in a year without one) is at most
\* `days` days away; the entry names that occurrence, and the candidate the
\* code computes is never before today.
C4_UpcomingIffWithinWindow ==
    Ran({"get_upcoming_birthdays"}) =>
        LET today == call.clock[1]
        IN  /\ out.exc = ""
            /\ \A i \in DOMAIN data :
                  LET born == data[i].rec.birthday
                  IN  /\ Listed(data[i].key) <=>
                            /\ born # <<>>
                            /\ DaysBetween(NextOccurrence(born[1], today), today)
                                  \in 0..call.days
                      /\ born # <<>> =>
                            /\ BirthdayThisYear(born[1], today).exc = ""
                            /\ DaysBetween(BirthdayThisYear(born[1], today).val,
                                           today) >= 0
            /\ \A k \in DOMAIN ret :
                  /\ ret[k].name \in Keys(data)
                  /\ ret[k].birthday =
                        strftime(NextOccurrence(BirthdayOf(data, ret[k].name)[1],
                                                today))
            /\ \A k, l \in DOMAIN ret : ret[k].name = ret[l].name => k = l

\* the birthday 29.02.2000 read in 2025: the entry names 28.02.2025
C4_Witness ==
    /\ Ran({"get_upcoming_birthdays"})
    /\ call.clock[1].y = 2025
    /\ \E k \in DOMAIN ret :
          /\ BirthdayOf(data, ret[k].name) = <<Date(2000, 2, 29)>>
          /\ ret[k].birthday = strftime(Date(2025, 2, 28))

----------------------------------------------------------------------------
(* C5 *)

\* 2000-01-01 was a Saturday
IsSaturday(dt) == DaysBetween(dt, Date(2000, 1, 1)) % 7 = 0
IsSunday(dt) == DaysBetween(dt, Date(2000, 1, 1)) % 7 = 1

\* C5: in every entry returned, the congratulation date is the candidate plus
\* 2 days when the candidate is a Saturday, plus 1 day when it is a Sunday and
\* the candidate otherwise: never a Saturday or Sunday, at most 2 days later.
C5_CongratulationSkipsWeekend ==
    Ran({"get_upcoming_birthdays"}) =>
        \A k \in DOMAIN ret :
            LET candidate == strptime(ret[k].birthday).val
                congratulation == strptime(ret[k].congratulation_date).val
            IN  /\ IsSaturday(candidate) => congratulation = AddDays(candidate, 2)
                /\ IsSunday(candidate) => congratulation = AddDays(candidate, 1)
                /\ ~IsSaturday(candidate) /\ ~IsSunday(candidate)
                      => congratulation = candidate
                /\ ~IsSaturday(congratulation) /\ ~IsSunday(congratulation)
                /\ DaysBetween(congratulation, candidate) \in 0..2

\* a Saturday candidate on the last day of the window: the congratulation date
\* lies beyond today + days
C5_Witness ==
    /\ Ran({"get_upcoming_birthdays"})
    /\ \E k \in DOMAIN ret :
          /\ IsSaturday(strptime(ret[k].birthday).val)
          /\ DaysBetween(strptime(ret[k].congratulation_date).val, call.clock[1])
                > call.days

----------------------------------------------------------------------------
(* C6 *)

\* C6: whatever methods and handlers were called, each key of the address book
\* equals the stored name of its record, and that name has a character that is
\* not whitespace.
C6_KeyIsRecordName ==
    \A i \in DOMAIN data :
        /\ data[i].key = data[i].rec.name
        /\ \E c \in DOMAIN data[i].key : data[i].key[c] \notin Whitespace

\* Record() has just refused a blank name while the book holds two contacts
C6_Witness ==
    /\ Ran({"add_record"})
    /\ call.args[1] # <<>>
    /\ \A c \in DOMAIN call.args[1] : call.args[1][c] \in Whitespace
    /\ out.exc = "ValueError"
    /\ Len(data) = 2

----------------------------------------------------------------------------
(* C7 *)

\* C7: add with a name and a valid phone leaves the contact with its previous
\* phones (none if it did not exist) and the new phone appended, also when the
\* phone is already there; its birthday and every other contact are unchanged.
C7_AddAppendsPhone ==
    [][(/\ Runs({"add"})
        /\ Len(call'.args) >= 2
        /\ TenAsciiDigits(call'.args[2]))
       => LET name == call'.args[1]
          IN  /\ Keys(data') = Keys(data) \cup {name}
              /\ PhonesOf(data', name) = Append(PhonesOf(data, name), call'.args[2])
              /\ BirthdayOf(data', name) = BirthdayOf(data, name)
              /\ \A other \in Keys(data) \ {name} :
                    AddressBook_find(data', other) = AddressBook_find(data, other)
              /\ \A i \in DOMAIN data' : data'[i].key = data'[i].rec.name]_vars

\* add of a phone the contact already holds, the contact having a birthday and
\* the book another contact
C7_Witness ==
    /\ Ran({"add"})
    /\ Len(call.args) >= 2
    /\ TenAsciiDigits(call.args[2])
    /\ PhonesOf(data, call.args[1]) = <<call.args[2], call.args[2]>>
    /\ BirthdayOf(data, call.args[1]) # <<>>
    /\ Len(data) = 2

----------------------------------------------------------------------------
(* C8 *)

\* the same names, the same phones in the same order and the same birthday
\* (or none) under each name
SameContents(a, b) ==
    /\ Keys(a) = Keys(b)
    /\ \A i \in DOMAIN a : a[i].key = a[i].rec.name
    /\ \A name \in Keys(a) :
          /\ PhonesOf(a, name) = PhonesOf(b, name)
          /\ BirthdayOf(a, name) = BirthdayOf(b, name)

\* C8: the book loaded at the next start has the contents of the book that was
\* saved at close; so has the book loaded after it was saved a second time.
C8_SaveLoadRoundTrip ==
    [][/\ (pc = "ready" /\ pc' = "done") => data' = data
       /\ (pc = "done" /\ pc' = "ready") => SameContents(data', data)]_vars

\* a loaded book of two contacts: one with two different phones and a
\* birthday, one with neither
C8_Witness ==
    /\ pc = "ready"
    /\ disk # <<>>
    /\ Len(data) = 2
    /\ \E i, j \in DOMAIN data :
          /\ Len(data[i].rec.phones) = 2
          /\ data[i].rec.phones[1] # data[i].rec.phones[2]
          /\ data[i].rec.birthday # <<>>
          /\ data[j].rec.phones = <<>>
          /\ data[j].rec.birthday = <<>>

----------------------------------------------------------------------------
(* C9 *)

FirstIndexOf(s, x) ==
    CHOOSE i \in DOMAIN s : s[i] = x /\ \A j \in 1..(i - 1) : s[j] # x

\* C9: edit_phone(old, new) on a record that holds old, new being a valid
\* phone, replaces the first entry equal to old and nothing else; when old is
\* absent it fails with "not found" whatever new is; when new is not a valid
\* phone it fails with a validation error; a failure leaves the phones as
\* they were.
C9_EditPhoneInPlace ==
    [][Runs({"edit_phone"})
       => LET name == call'.args[1]
              old == call'.args[2]
              new == call'.args[3]
              before == PhonesOf(data, name)
              after == PhonesOf(data', name)
          IN  IF old \notin Range(before)
              THEN /\ out'.exc = "ValueError"
                   /\ out'.text = <<"Phone ">> \o old \o <<" not found">>
                   /\ after = before
              ELSE IF TenAsciiDigits(new)
              THEN /\ out'.exc = ""
                   /\ after = [before EXCEPT ![FirstIndexOf(before, old)] = new]
              ELSE /\ out'.exc = "ValueError"
                   /\ out'.text \in {Msg("Phone number must contain only digits"),
                                     Msg("Phone number must be exactly 10 digits")}
                   /\ after = before]_vars

----------------------------------------------------------------------------
(* C10 *)

\* C10: add, change and add-birthday, when they print an error message instead
\* of their success message, leave the address book as it was.
C10_FailedCommandChangesNothing ==
    [][(/\ Runs({"add", "change", "add-birthday"})
        /\ out'.text \notin SuccessMessages)
       => data' = data]_vars

============================================================================
